---------------------------- MODULE Spec2Model ----------------------------
(***************************************************************************)
(* State-machine model of the dino-bot decision core: the grid path        *)
(* engine (src/src/pathfinding.py), the world model update cycle           *)
(* (src/src/gamestate.py) and the strategy selection state machine         *)
(* (src/src/strategies).                                                   *)
(*                                                                         *)
(* A cell is a pair <<x, y>>.  A path is a sequence of cells.              *)
(***************************************************************************)
EXTENDS Integers, Sequences, FiniteSets, TLC

(***************************************************************************)
(* Bounds of the path-engine specification (SpecPath).                     *)
(***************************************************************************)
MaxW == 3
MaxH == 3
MaxForbidden == 2

(***************************************************************************)
(* Bounds of the world specifications (Spec, SpecRepeat): the grid of the  *)
(* game, the radius inside which the server reports cells, the last tick   *)
(* index and the largest lifetime a reported gem carries.                  *)
(***************************************************************************)
WorldW == 3
WorldH == 2
VisRadius == 2
MaxTick == 1
MaxTtl == 2

VARIABLES
    \* ---- path engine call (find_path arguments and result)
    start, goal, forbidden, path,
    \* ---- grid size: find_path arguments, GameConfig.width / height
    width, height,
    \* ---- control: "call"/"return" for a find_path call;
    \*      "ingested"/"refreshed"/"decided" for the position in a tick
    pc,
    \* ---- GameState: the observation of the current tick
    tick, bot, wall, floor, initiative, visible_gems, visible_bots,
    \* ---- GameState: persistent knowledge
    known_gems,        \* dict in insertion order: sequence of [position, ttl, reachable]
    known_walls,       \* set of wall cells (keys of the dict)
    known_floors,      \* function cell -> last_seen
    hidden_positions, cave_revealed, behaviour_state,
    last_path,         \* path committed by the previous decision
    \* ---- module-level path cache: dict in insertion order,
    \*      sequence of [key |-> <<start, goal, forbidden, w, h>>, val |-> path]
    cache,
    \* ---- result of the decision pass
    selected,          \* strategy returned by decide_strategy
    next_pos,          \* cell returned by LocalStrategy.decide
    raised,            \* the decision pass ended with an exception
    \* ---- history: known_gems as it was before the last refresh, and the
    \*      number of refresh runs made for the current tick index
    prev_gems, cycles,
    \* ---- GameState.floor_graph: function cell -> set of neighbour cells
    floor_graph,
    \* ---- scored_candidates of the last decision pass, in dict order:
    \*      sequence of [target, path, score]
    scored_candidates,
    \* ---- history: every wall cell reported so far, and hidden_positions
    \*      as it was before the last refresh
    seen_walls, prev_hidden,
    \* ---- solve_set_cover: its arguments universe and view_points (the
    \*      sets in dict order) and the selection it returns (indices into
    \*      view_points)
    universe, view_points, selected_sets,
    \* ---- one call of a function that keeps no state between calls (graph
    \*      analysis, field of view, clustering): the record of its
    \*      arguments and the value it returns
    args, result

coverVars == <<universe, view_points, selected_sets>>

callVars == <<args, result>>

pathVars == <<start, goal, forbidden, path>>

worldVars == <<tick, bot, wall, floor, initiative, visible_gems, visible_bots,
               known_gems, known_walls, known_floors, hidden_positions,
               cave_revealed, behaviour_state, last_path, cache, selected,
               next_pos, raised, prev_gems, cycles, floor_graph,
               scored_candidates,
               seen_walls, prev_hidden>>

-----------------------------------------------------------------------------
(***************************************************************************)
(* Generic helpers.                                                        *)
(***************************************************************************)
Abs(n) == IF n < 0 THEN -n ELSE n

Grid(w, h) == (0 .. w - 1) \X (0 .. h - 1)

InBounds(c, w, h) == 0 <= c[1] /\ c[1] < w /\ 0 <= c[2] /\ c[2] < h

RECURSIVE Reverse(_)
Reverse(s) == IF s = <<>> THEN <<>> ELSE Reverse(Tail(s)) \o <<Head(s)>>

\* list membership (`x in path')
InSeq(x, s) == \E i \in 1 .. Len(s) : s[i] = x

\* list.index(x): first position of x, 1-based; 0 when absent
IndexOf(x, s) ==
    IF InSeq(x, s) THEN CHOOSE i \in 1 .. Len(s) :
                            s[i] = x /\ \A j \in 1 .. i - 1 : s[j] # x
    ELSE 0

manhattan(a, b) == Abs(a[1] - b[1]) + Abs(a[2] - b[2])

-----------------------------------------------------------------------------
(***************************************************************************)
(* PathEngine: bfs and find_path.                                          *)
(***************************************************************************)
\* Direction enum without WAIT, in declaration order: LEFT, RIGHT, UP, DOWN
Directions == << <<-1, 0>>, <<1, 0>>, <<0, -1>>, <<0, 1>> >>

\* Neighbour ordering biased to the axis with the larger remaining distance
Prioritized(cur, target) ==
    LET dx == Abs(target[1] - cur[1])
        dy == Abs(target[2] - cur[2])
        xs == SelectSeq(Directions, LAMBDA d : d[1] # 0)
        ys == SelectSeq(Directions, LAMBDA d : d[2] # 0)
    IN  IF dx > dy THEN xs \o ys
        ELSE IF dy > dx THEN ys \o xs
        ELSE Directions

\* Mutant of Passable: the forbidden set is not consulted
PassableIgnoringForbidden(n, forb, visited, w, h) ==
    /\ InBounds(n, w, h)
    /\ n \notin visited

\* The test a neighbour must pass to be enqueued
Passable(n, forb, visited, w, h) ==
    /\ InBounds(n, w, h)
    /\ n \notin forb
    /\ n \notin visited

\* Mutant of QueuePop: the newest entry is taken first (depth-first search)
QueuePopLast(queue) ==
    <<queue[Len(queue)], SubSeq(queue, 1, Len(queue) - 1)>>

\* queue.popleft(): the oldest entry and the rest of the queue
QueuePop(queue) == <<Head(queue), Tail(queue)>>

\* The `for direction in prioritized' loop: returns <<queue, visited>>
RECURSIVE ExpandNeighbours(_, _, _, _, _, _, _, _)
ExpandNeighbours(dirs, p, queue, visited, forb, w, h, i) ==
    IF i > Len(dirs) THEN <<queue, visited>>
    ELSE LET cur == p[Len(p)]
             n   == <<cur[1] + dirs[i][1], cur[2] + dirs[i][2]>>
         IN  IF Passable(n, forb, visited, w, h)
             THEN ExpandNeighbours(dirs, p, Append(queue, Append(p, n)),
                                   visited \cup {n}, forb, w, h, i + 1)
             ELSE ExpandNeighbours(dirs, p, queue, visited, forb, w, h, i + 1)

\* The `while queue' loop of bfs with is_goal = (pos == target), goal = target
RECURSIVE BfsLoop(_, _, _, _, _, _)
BfsLoop(queue, visited, target, forb, w, h) ==
    IF queue = <<>> THEN <<>>
    ELSE LET popped == QueuePop(queue)
             p      == popped[1]
             cur    == p[Len(p)]
         IN  IF cur = target THEN p
             ELSE LET nxt == ExpandNeighbours(Prioritized(cur, target), p,
                                              popped[2], visited, forb, w, h, 1)
                  IN  BfsLoop(nxt[1], nxt[2], target, forb, w, h)

bfs(s, target, forb, w, h) == BfsLoop(<< <<s>> >>, {s}, target, forb, w, h)

\* find_path: forward search, then one retry from goal back to start, reversed
find_path(s, g, forb, w, h) ==
    LET path_tuples == bfs(s, g, forb, w, h)
    IN  IF path_tuples = <<>>
        THEN Reverse(bfs(g, s, forb, w, h))
        ELSE path_tuples

-----------------------------------------------------------------------------
(***************************************************************************)
(* Reference notions the path claims are stated against: plain graph       *)
(* reachability and distance by level sets, with no queue and no bias.     *)
(***************************************************************************)
Adjacent4(a, b) == manhattan(a, b) = 1

FreeCells(forb, w, h) == Grid(w, h) \ forb

\* Level-set search from `frontier': number of steps to reach g, or -1.
\* Cells entered must be in bounds and not forbidden; the root is not tested.
RECURSIVE LevelDist(_, _, _, _, _)
LevelDist(frontier, seen, g, free, d) ==
    IF g \in frontier THEN d
    ELSE LET nxt == {c \in free \ seen : \E f \in frontier : Adjacent4(c, f)}
         IN  IF nxt = {} THEN -1
             ELSE LevelDist(nxt, seen \cup nxt, g, free, d + 1)

RefDist(s, g, forb, w, h) == LevelDist({s}, {s}, g, FreeCells(forb, w, h), 0)

\* A chain of 4-adjacent, in-bounds, non-forbidden cells joins s to g
Joined(s, g, forb, w, h) ==
    /\ s \in FreeCells(forb, w, h)
    /\ g \in FreeCells(forb, w, h)
    /\ RefDist(s, g, forb, w, h) # -1

-----------------------------------------------------------------------------
(***************************************************************************)
(* SpecPath: one call of find_path on inputs drawn from the bounded sets.  *)
(***************************************************************************)
\* No game is running: the GameState fields hold their dataclass defaults
WorldIdle ==
    /\ tick = 0 /\ bot = <<0, 0>> /\ wall = {} /\ floor = {}
    /\ initiative = FALSE /\ visible_gems = <<>> /\ visible_bots = <<>>
    /\ known_gems = <<>> /\ known_walls = {} /\ known_floors = <<>>
    /\ hidden_positions = {} /\ cave_revealed = FALSE
    /\ behaviour_state = "IDLE" /\ last_path = <<>> /\ cache = <<>>
    /\ selected = "none" /\ next_pos = <<0, 0>> /\ raised = FALSE
    /\ prev_gems = <<>> /\ cycles = 0
    /\ floor_graph = <<>> /\ scored_candidates = <<>>
    /\ seen_walls = {} /\ prev_hidden = {}

\* solve_set_cover is not running
CoverIdle == universe = {} /\ view_points = <<>> /\ selected_sets = {}

\* No such call is in progress
CallIdle == args = <<>> /\ result = <<>>

ForbiddenSets(w, h) ==
    {F \in SUBSET Grid(w, h) : Cardinality(F) <= MaxForbidden}

InitPath ==
    /\ width \in 1 .. MaxW
    /\ height \in 1 .. MaxH
    /\ start \in Grid(width, height)
    /\ goal \in Grid(width, height)
    /\ forbidden \in ForbiddenSets(width, height)
    /\ path = <<>>
    /\ pc = "call"
    /\ WorldIdle
    /\ CoverIdle
    /\ CallIdle

FindPath ==
    /\ pc = "call"
    /\ path' = find_path(start, goal, forbidden, width, height)
    /\ pc' = "return"
    /\ UNCHANGED <<start, goal, forbidden, width, height, worldVars, coverVars, callVars>>

vars == <<pathVars, width, height, pc, worldVars, coverVars, callVars>>

NextPath == FindPath

SpecPath == InitPath /\ [][NextPath]_vars

-----------------------------------------------------------------------------
(***************************************************************************)
(* Path-engine claims (checked under SpecPath).                            *)
(***************************************************************************)
Returned == pc = "return"

Connected(p) == \A i \in 1 .. Len(p) - 1 : Adjacent4(p[i], p[i + 1])

\* C1: whenever find_path returns a non-empty path, the path begins at start,
\* ends at goal, every consecutive pair of cells is 4-adjacent, and no cell of
\* the path is in the forbidden set or outside the width x height bounds
\* (inputs with a forbidden start or goal included).
C1_PathValidEverywhere ==
    (Returned /\ path # <<>>) =>
        /\ path[1] = start
        /\ path[Len(path)] = goal
        /\ Connected(path)
        /\ \A i \in 1 .. Len(path) :
               path[i] \in FreeCells(forbidden, width, height)

\* C2: whenever goal is reachable from start, the path returned by find_path
\* has exactly as many cells as a shortest path found by the level-set search
\* RefDist, which uses no queue and no neighbour bias.
C2_BiasKeepsMinimal ==
    (Returned /\ RefDist(start, goal, forbidden, width, height) # -1) =>
        Len(path) = RefDist(start, goal, forbidden, width, height) + 1

\* C2 witness: a returned path that had to leave the straight line (it is
\* longer than the Manhattan distance) in a search whose first expansion used
\* the biased ordering (vertical distance larger than horizontal).
C2_Witness ==
    /\ Returned
    /\ forbidden # {}
    /\ Abs(goal[2] - start[2]) > Abs(goal[1] - start[1])
    /\ Len(path) > manhattan(start, goal) + 1

\* C3: for start and goal in bounds and not forbidden, find_path returns the
\* empty path if and only if no chain of 4-adjacent, in-bounds, non-forbidden
\* cells joins start to goal.
C3_EmptyIffUnreachable ==
    (/\ Returned
     /\ start \in FreeCells(forbidden, width, height)
     /\ goal \in FreeCells(forbidden, width, height)) =>
        (path = <<>> <=> ~Joined(start, goal, forbidden, width, height))

\* C3 witness: the 3x1 grid with a wall at (1,0) between (0,0) and (2,0)
C3_Witness ==
    /\ Returned
    /\ width = 3 /\ height = 1
    /\ start = <<0, 0>> /\ goal = <<2, 0>>
    /\ forbidden = {<<1, 0>>}
    /\ path = <<>>


(***************************************************************************)
(* The path cache (cached_path_decorator).  The cache is a module-level    *)
(* dict; the list it returns is the stored list itself, so a caller that   *)
(* changes the list in place changes the cache entry.                      *)
(***************************************************************************)
CacheKey(s, g, forb, w, h) == <<s, g, forb, w, h>>

CacheHas(c, key) == \E i \in 1 .. Len(c) : c[i].key = key

CacheGet(c, key) == c[CHOOSE i \in 1 .. Len(c) : c[i].key = key].val

CacheSet(c, key, val) ==
    [i \in 1 .. Len(c) |-> IF c[i].key = key THEN [key |-> key, val |-> val] ELSE c[i]]

SetMin(S) == CHOOSE x \in S : \A y \in S : x <= y

\* Entries to the same goal, forbidden set and grid whose path contains s
SuffixHitsAnyForbidden(c, s, g, forb, w, h) ==
    {i \in 1 .. Len(c) : /\ c[i].key[2] = g
                         /\ c[i].key[4] = w /\ c[i].key[5] = h
                         /\ InSeq(s, c[i].val)}

SuffixHits(c, s, g, forb, w, h) ==
    {i \in 1 .. Len(c) : /\ c[i].key[2] = g
                         /\ c[i].key[3] = forb /\ c[i].key[4] = w /\ c[i].key[5] = h
                         /\ InSeq(s, c[i].val)}

\* The cache after one call of the decorated find_path; the value returned
\* to the caller is CacheGet of the result under the same key.
cached_find_path_no_inverse(c, s, g, forb, w, h) ==
    LET key  == CacheKey(s, g, forb, w, h)
        hits == SuffixHits(c, s, g, forb, w, h)
    IN  IF CacheHas(c, key) THEN c
        ELSE IF hits # {}
             THEN LET p == c[SetMin(hits)].val
                  IN  Append(c, [key |-> key,
                                 val |-> SubSeq(p, IndexOf(s, p), Len(p))])
        ELSE Append(c, [key |-> key, val |-> find_path(s, g, forb, w, h)])

cached_find_path(c, s, g, forb, w, h) ==
    LET key  == CacheKey(s, g, forb, w, h)
        inv  == CacheKey(g, s, forb, w, h)
        hits == SuffixHits(c, s, g, forb, w, h)
    IN  IF CacheHas(c, key) THEN c
        ELSE IF CacheHas(c, inv)
             THEN Append(c, [key |-> key, val |-> Reverse(CacheGet(c, inv))])
        ELSE IF hits # {}
             THEN LET p == c[SetMin(hits)].val
                  IN  Append(c, [key |-> key,
                                 val |-> SubSeq(p, IndexOf(s, p), Len(p))])
        ELSE Append(c, [key |-> key, val |-> find_path(s, g, forb, w, h)])

(***************************************************************************)
(* SpecCache: a sequence of cached_find_path calls and nothing else.  The  *)
(* arguments and the returned list are start, goal, forbidden, width,      *)
(* height and path; the cache holds at most MaxCache entries.              *)
(***************************************************************************)
MaxCache == 2

CacheCells == {<<0, 0>>, <<1, 0>>, <<1, 1>>}

CacheForbidden == {{}, {<<1, 0>>}}

CacheGrids == {<<2, 2>>, <<2, 1>>}

InitCache ==
    /\ start = <<0, 0>> /\ goal = <<0, 0>> /\ forbidden = {} /\ path = <<>>
    /\ width = 2 /\ height = 2
    /\ pc = "cache"
    /\ WorldIdle
    /\ CoverIdle
    /\ CallIdle

Lookup ==
    /\ pc = "cache"
    /\ \E s \in CacheCells, g \in CacheCells, f \in CacheForbidden,
          wh \in CacheGrids :
          /\ \/ Len(cache) < MaxCache
             \/ CacheHas(cache, CacheKey(s, g, f, wh[1], wh[2]))
          /\ start' = s /\ goal' = g /\ forbidden' = f
          /\ width' = wh[1] /\ height' = wh[2]
          /\ cache' = cached_find_path(cache, s, g, f, wh[1], wh[2])
          /\ path' = CacheGet(cache', CacheKey(s, g, f, wh[1], wh[2]))
    /\ UNCHANGED <<pc, tick, bot, wall, floor, initiative, visible_gems,
                   visible_bots, known_gems, known_walls, known_floors,
                   hidden_positions, cave_revealed, behaviour_state,
                   last_path, selected, next_pos, raised, prev_gems, cycles,
                   floor_graph, scored_candidates, seen_walls, prev_hidden,
                   coverVars, callVars>>

NextCache == Lookup

SpecCache == InitCache /\ [][NextCache]_vars

LookedUp == pc = "cache" /\ cache # <<>>

InverseKey(key) == CacheKey(key[2], key[1], key[3], key[4], key[5])

\* The entries the cache held before the last insertion
Earlier(c) == SubSeq(c, 1, Len(c) - 1)

\* C15: after any sequence of lookups, the list a lookup returns has as
\* many cells as find_path returns for the same arguments (so it is empty
\* exactly when find_path's is), and when it is not empty it goes from start
\* to goal by 4-adjacent steps whose cells between the two ends are inside
\* the grid and outside the forbidden set of this very lookup.
C15_CachedLengthEqualsUncached ==
    LookedUp =>
        /\ Len(path) = Len(find_path(start, goal, forbidden, width, height))
        /\ path # <<>> =>
               /\ path[1] = start
               /\ path[Len(path)] = goal
               /\ Connected(path)
               /\ \A i \in 2 .. Len(path) - 1 :
                      path[i] \in FreeCells(forbidden, width, height)

\* C15 witness: a lookup answered with the tail of a path cached for
\* another start, while the cache also holds nothing under the reversed key
C15_Witness ==
    /\ LookedUp
    /\ Len(cache) = MaxCache
    /\ cache[Len(cache)].key = CacheKey(start, goal, forbidden, width, height)
    /\ ~CacheHas(Earlier(cache), InverseKey(cache[Len(cache)].key))
    /\ SuffixHits(Earlier(cache), start, goal, forbidden, width, height) # {}
    /\ Len(path) >= 2

\* C16: once a lookup for (A, B, F, w, h) has been made, the lookup for
\* (B, A, F, w, h) returns the same cells in reverse order: two entries
\* under mutually reversed keys hold mutually reversed lists.
C16_ReversedLookupIsReversedPath ==
    pc = "cache" =>
        \A i, j \in 1 .. Len(cache) :
            cache[j].key = InverseKey(cache[i].key) =>
                cache[j].val = Reverse(cache[i].val)

\* C16 witness: a path of three cells and its reversal, both cached
C16_Witness ==
    /\ LookedUp
    /\ Len(cache) = 2
    /\ cache[2].key = InverseKey(cache[1].key)
    /\ start # goal
    /\ Len(path) >= 3
    /\ path = Reverse(cache[1].val)

(***************************************************************************)
(* SpecCover: one call of solve_set_cover.  view_points is the dict's      *)
(* values in insertion order; a viewpoint is named by its index.           *)
(***************************************************************************)
MaxSets == 2

CoverCells == {<<0, 0>>, <<0, 1>>, <<1, 0>>}

UniverseCells == {<<0, 0>>, <<0, 1>>}

RECURSIVE Families(_)
Families(n) ==
    IF n = 0 THEN {<<>>}
    ELSE Families(n - 1)
         \cup {Append(f, e) : f \in {g \in Families(n - 1) : Len(g) = n - 1},
                              e \in SUBSET CoverCells}

\* coverage = len(elements - covered)
Coverage(vp, covered, i) == Cardinality(vp[i] \ covered)

\* The for loop of one round: the first set, in dict order, whose coverage
\* is the largest, provided it is above 0; 0 stands for best_set = None
BestSet(vp, left, covered) ==
    IF \A i \in left : Coverage(vp, covered, i) = 0 THEN 0
    ELSE SetMin({i \in left : \A j \in left :
                    Coverage(vp, covered, i) >= Coverage(vp, covered, j)})

\* The while loop; left: the keys still in covery_sets
RECURSIVE GreedyLoop(_, _, _, _, _)
Pick(vp, u, left, covered, sel, best) ==
    IF best = 0 THEN [covered |-> covered, selected |-> sel]
    ELSE GreedyLoop(vp, u, left \ {best}, covered \cup vp[best],
                    sel \cup {best})

GreedyLoop(vp, u, left, covered, sel) ==
    IF covered = u THEN [covered |-> covered, selected |-> sel]
    ELSE Pick(vp, u, left, covered, sel, BestSet(vp, left, covered))

CoverResult(u, r) == IF r.covered = u THEN r.selected ELSE {}

solve_set_cover(vp, u) ==
    CoverResult(u, GreedyLoop(vp, u, 1 .. Len(vp), {}, {}))

InitCover ==
    /\ start = <<0, 0>> /\ goal = <<0, 0>> /\ forbidden = {} /\ path = <<>>
    /\ width = 2 /\ height = 2
    /\ WorldIdle
    /\ CallIdle
    /\ pc = "cover"
    /\ universe \in SUBSET UniverseCells
    /\ view_points \in Families(MaxSets)
    /\ selected_sets = {}

SolveSetCover ==
    /\ pc = "cover"
    /\ pc' = "covered"
    /\ selected_sets' = solve_set_cover(view_points, universe)
    /\ UNCHANGED <<pathVars, width, height, worldVars, universe, view_points,
                   callVars>>

NextCover == SolveSetCover

SpecCover == InitCover /\ [][NextCover]_vars

Union(vp, sel) == UNION {vp[i] : i \in sel}

\* C19: solve_set_cover returns a selection whose union covers the universe
\* whenever some subfamily of the viewpoint sets covers it (sets with cells
\* outside the universe included), and the empty selection when none does.
C19_GreedyCoversWheneverPossible ==
    pc = "covered" =>
        IF \E sub \in SUBSET (1 .. Len(view_points)) :
               universe \subseteq Union(view_points, sub)
        THEN universe \subseteq Union(view_points, selected_sets)
        ELSE selected_sets = {}

(***************************************************************************)
(* Gem bookkeeping (GameState.update_known_gems, check_reachable_gem).     *)
(***************************************************************************)
Gem(p, t, r) == [position |-> p, ttl |-> t, reachable |-> r]

Positions(gems) == {gems[i].position : i \in 1 .. Len(gems)}

GemAt(gems, p) == gems[CHOOSE i \in 1 .. Len(gems) : gems[i].position = p]

PurgeBelowZero(g) == g.ttl >= 0

Alive(g) == g.ttl > 0

AgeUp(g) == Gem(g.position, g.ttl + 1, g.reachable)

Age(g) == Gem(g.position, g.ttl - 1, g.reachable)

\* for gem in known_gems.values(): gem.ttl -= 1; then delete those with ttl <= 0
DecayGems(gems) ==
    SelectSeq([i \in 1 .. Len(gems) |-> Age(gems[i])], Alive)

\* known_gems.update({gem.position: gem for gem in visible_gems}): a known
\* position keeps its place in the dict and takes the observed gem
RECURSIVE MergeVisible(_, _, _)
MergeVisible(gems, vis, i) ==
    IF i > Len(vis) THEN gems
    ELSE LET v == vis[i]
             merged == IF v.position \in Positions(gems)
                       THEN [j \in 1 .. Len(gems) |->
                                IF gems[j].position = v.position THEN v ELSE gems[j]]
                       ELSE Append(gems, v)
         IN  MergeVisible(merged, vis, i + 1)

\* len(gem_path) > 0 and len(gem_path) - 1 <= gem.ttl
ReachableTest(gem_path, ttl) == Len(gem_path) > 0 /\ Len(gem_path) - 1 <= ttl

\* The test of check_reachable_gem on the path found under key in the
\* cache c2 left by the lookup: <<flag, cache after the call>>
ReachableFrom(c2, key, ttl) == <<ReachableTest(CacheGet(c2, key), ttl), c2>>

check_reachable_gem(c, b, gem, walls, w, h) ==
    ReachableFrom(cached_find_path(c, b, gem.position, walls, w, h),
                  CacheKey(b, gem.position, walls, w, h), gem.ttl)

\* for gem in known_gems.values(): gem.reachable = check_reachable_gem(...)
\* MarkGem stores the flag r[1] of gem i and goes on with the cache r[2]
RECURSIVE MarkReachable(_, _, _, _, _, _, _)
RECURSIVE MarkGem(_, _, _, _, _, _, _)
MarkGem(gems, r, b, walls, w, h, i) ==
    MarkReachable([gems EXCEPT ![i] = Gem(gems[i].position, gems[i].ttl, r[1])],
                  r[2], b, walls, w, h, i + 1)

MarkReachable(gems, c, b, walls, w, h, i) ==
    IF i > Len(gems) THEN [gems |-> gems, cache |-> c]
    ELSE MarkGem(gems, check_reachable_gem(c, b, gems[i], walls, w, h),
                 b, walls, w, h, i)

\* self.known_gems.pop(self.bot, None)
PopBot(marked, b) ==
    [gems  |-> SelectSeq(marked.gems, LAMBDA g : g.position # b),
     cache |-> marked.cache]

\* update_known_gems: decay, purge, merge the observation, mark, pop the
\* bot's own cell
update_known_gems(gems, vis, c, b, walls, w, h) ==
    PopBot(MarkReachable(MergeVisible(DecayGems(gems), vis, 1),
                         c, b, walls, w, h, 1), b)

(***************************************************************************)
(* The decision pass of the "cave_explore_greedy" composition:             *)
(* GlobalCombinedStrategy over the exploration, oldest-floor patrol and    *)
(* gem-collection LocalStrategies.  The stuck counter is 0 throughout.     *)
(***************************************************************************)
Infinity == 1000000

get_adjacents(p) ==
    {<<p[1] + 1, p[2]>>, <<p[1] - 1, p[2]>>, <<p[1], p[2] + 1>>, <<p[1], p[2] - 1>>}

get_diagonal_adjacents(p) ==
    {<<p[1] + 1, p[2] + 1>>, <<p[1] - 1, p[2] - 1>>,
     <<p[1] + 1, p[2] - 1>>, <<p[1] - 1, p[2] + 1>>}

AnyReachable(gems) == \E i \in 1 .. Len(gems) : gems[i].reachable

decide_strategy_revealed_first(gems, revealed) ==
    IF revealed THEN [state |-> "PATROLLING", name |-> "patrol"]
    ELSE IF AnyReachable(gems)
         THEN [state |-> "COLLECTING_GEM", name |-> "gem_collection"]
    ELSE [state |-> "EXPLORING", name |-> "exploration"]

\* GlobalCombinedStrategy.decide_strategy: the behaviour state it sets and
\* the strategy it returns
decide_strategy(gems, revealed) ==
    IF AnyReachable(gems)
    THEN [state |-> "COLLECTING_GEM", name |-> "gem_collection"]
    ELSE IF ~revealed THEN [state |-> "EXPLORING", name |-> "exploration"]
    ELSE [state |-> "PATROLLING", name |-> "patrol"]

\* _adjacent inside update_hidden_floors: the in-grid 4-neighbours
adjacent(pos, w, h) == {a \in get_adjacents(pos) : InBounds(a, w, h)}

\* update_hidden_floors: the hidden cells next to a known floor cell
update_hidden_floors(hp, kf, w, h) ==
    {pos \in hp : \E adj \in adjacent(pos, w, h) : adj \in DOMAIN kf}

Nearest(S, b) == {x \in S : \A y \in S : manhattan(b, x) <= manhattan(b, y)}

\* Planners: the set of candidate lists the planner can return (the order
\* of equally near or equally old cells follows set/dict iteration order)
cave_explore_planner(hidden, lp, b) ==
    IF Len(lp) > 0 /\ lp[Len(lp)] \in hidden THEN {<<lp[Len(lp)]>>}
    ELSE IF hidden = {} THEN {<<>>}
    ELSE {<<t>> : t \in Nearest(hidden, b)}

oldest_floor_patrol_planner(kf) ==
    {<<t>> : t \in {x \in DOMAIN kf : \A y \in DOMAIN kf : kf[x] <= kf[y]}}

greedy_planner(gems, b) ==
    IF gems = <<>> THEN {<<b>>}
    ELSE {[i \in 1 .. Len(gems) |-> gems[i].position]}

Scored(path_, score_, c) == [path |-> path_, score |-> score_, cache |-> c]

LenOrInf(p) == IF p # <<>> THEN Len(p) ELSE Infinity

\* The evaluators' result for the path found under key in the cache c2
PathScore(c2, key) == Scored(CacheGet(c2, key), LenOrInf(CacheGet(c2, key)), c2)

\* cave_explore_evaluator and patrol_evaluator (last_bot_pos stays None, so
\* the revisit penalty is 0)
path_length_evaluator(c, target) ==
    PathScore(cached_find_path(c, bot, target, known_walls, width, height),
              CacheKey(bot, target, known_walls, width, height))

IsClose(enemy) == enemy \in get_diagonal_adjacents(bot) \cup get_adjacents(bot)

\* greedy_blocking_evaluator: the loop over visible_bots from enemy i on.
\*   BlockingLoop  the loop head and the two lookups of the initiative branch
\*   Contest       lines 65-79, c3 being the cache after both lookups
\*   Block         lines 81-93, c4 being the cache after the block_path lookup
\*   Avoid         line 108, c2 being the cache after the detour lookup
RECURSIVE BlockingLoop(_, _, _, _, _)
RECURSIVE Contest(_, _, _, _)
RECURSIVE Block(_, _, _, _, _, _)
Block(i, c4, block_move, target, bp, score) ==
    LET bkey == CacheKey(block_move, target, known_walls, width, height)
        block_path == CacheGet(c4, bkey)
    IN  IF block_path # <<>>
           /\ manhattan(block_move, target) < manhattan(bot, target)
        THEN \* block_path.insert(0, block_move) changes the list held by
             \* the cache
             Scored(<<block_move>> \o block_path,
                    Len(block_path) - 2,
                    CacheSet(c4, bkey, <<block_move>> \o block_path))
        ELSE BlockingLoop(i + 1, c4, target, bp, score)

Contest(i, c3, target, score) ==
    LET enemy == visible_bots[i]
        enemy_path == CacheGet(c3, CacheKey(enemy, target, known_walls, width, height))
        bp == CacheGet(c3, CacheKey(bot, target, known_walls, width, height))
    IN  IF bp = <<>> \/ enemy_path = <<>> \/ Len(enemy_path) <= 1
        THEN Scored(bp, Infinity, c3)
        ELSE IF enemy_path[2] \notin get_adjacents(bot)
        THEN Scored(bp, Len(bp), c3)
        ELSE Block(i,
                   cached_find_path(c3, enemy_path[2], target, known_walls,
                                    width, height),
                   enemy_path[2], target, bp, score)

Avoid(c2, key) ==
    Scored(CacheGet(c2, key),
           IF CacheGet(c2, key) # <<>> THEN Len(CacheGet(c2, key)) - 2 ELSE Infinity,
           c2)

BlockingLoop(i, c, target, bot_path, score) ==
    IF i > Len(visible_bots) THEN Scored(bot_path, score, c)
    ELSE IF ~IsClose(visible_bots[i])
    THEN BlockingLoop(i + 1, c, target, bot_path, score)
    ELSE IF initiative
    THEN Contest(i,
                 cached_find_path(
                     cached_find_path(c, visible_bots[i], target, known_walls,
                                      width, height),
                     bot, target, known_walls, width, height),
                 target, score)
    ELSE Avoid(cached_find_path(c, bot, target,
                                known_walls \cup get_adjacents(visible_bots[i]),
                                width, height),
               CacheKey(bot, target,
                        known_walls \cup get_adjacents(visible_bots[i]),
                        width, height))

StartLoop(first, target) ==
    BlockingLoop(1, first.cache, target, first.path, first.score)

greedy_blocking_evaluator(c, target) ==
    StartLoop(path_length_evaluator(c, target), target)

Evaluate(name, c, target) ==
    IF name = "gem_collection" THEN greedy_blocking_evaluator(c, target)
    ELSE path_length_evaluator(c, target)

\* scored_candidates = {target: evaluator(game_state, target) for target in
\* candidates}: <<entries in candidate order, cache after the evaluations>>
\* AddScore stores the evaluation e of candidate i
RECURSIVE ScoreCandidates(_, _, _, _, _)
RECURSIVE AddScore(_, _, _, _, _)
AddScore(name, cands, i, e, acc) ==
    ScoreCandidates(name, cands, i + 1, e.cache,
        Append(acc, [target |-> cands[i], path |-> e.path, score |-> e.score]))

ScoreCandidates(name, cands, i, c, acc) ==
    IF i > Len(cands) THEN <<acc, c>>
    ELSE AddScore(name, cands, i, Evaluate(name, c, cands[i]), acc)

\* simple_tie_breaker: min() returns the first entry of minimal score
simple_tie_breaker(scored) ==
    scored[SetMin({i \in 1 .. Len(scored) :
                      \A j \in 1 .. Len(scored) : scored[i].score <= scored[j].score})]

\* The tail of LocalStrategy.decide: the cell it returns
NextStep(best, b) ==
    IF best.target # b /\ Len(best.path) > 1 THEN best.path[2] ELSE b

(***************************************************************************)
(* The game around the agent: a fixed cave, and the per-tick observation   *)
(* the server sends (cells within the visibility radius, at most one gem   *)
(* and one rival).                                                         *)
(***************************************************************************)
TrueWalls == {<<0, 0>>}

BotStarts == {<<1, 0>>, <<2, 0>>, <<2, 1>>}

GemCells == {<<2, 1>>, <<0, 1>>, <<1, 1>>}

EnemyCells == {<<0, 1>>}

Seen(b) == {c \in Grid(WorldW, WorldH) : manhattan(b, c) <= VisRadius}

GemObservations ==
    {<<>>} \cup {<<Gem(p, t, FALSE)>> : p \in GemCells, t \in 1 .. MaxTtl}

BotObservations == {<<>>} \cup {<<e>> : e \in EnemyCells}

\* The fields update_from_dict / from_dict take from the server's message
Observe(b) ==
    /\ wall' = Seen(b) \cap TrueWalls
    /\ floor' = Seen(b) \ TrueWalls
    /\ visible_gems' \in GemObservations
    /\ visible_bots' \in BotObservations
    /\ initiative' \in (IF visible_bots' = <<>> THEN {FALSE} ELSE BOOLEAN)

PathIdle == start = <<0, 0>> /\ goal = <<0, 0>> /\ forbidden = {} /\ path = <<>>

\* GameState.from_dict and __post_init__ on the first message
Init ==
    /\ PathIdle
    /\ width = WorldW /\ height = WorldH
    /\ pc = "ingested"
    /\ tick = 0
    /\ bot \in BotStarts
    /\ wall = Seen(bot) \cap TrueWalls
    /\ floor = Seen(bot) \ TrueWalls
    /\ visible_gems \in GemObservations
    /\ visible_bots \in BotObservations
    /\ initiative \in (IF visible_bots = <<>> THEN {FALSE} ELSE BOOLEAN)
    /\ known_gems = <<>>
    /\ known_walls = wall
    /\ known_floors = [c \in floor |-> 0]
    /\ hidden_positions = Grid(width, height) \ (wall \cup floor)
    /\ cave_revealed = FALSE
    /\ behaviour_state = "IDLE"
    /\ last_path = <<>>
    /\ cache = <<>>
    /\ selected = "none" /\ next_pos = bot /\ raised = FALSE
    /\ prev_gems = <<>> /\ cycles = 0
    /\ floor_graph = <<>> /\ scored_candidates = <<>>
    /\ seen_walls = wall /\ prev_hidden = hidden_positions
    /\ CoverIdle
    /\ CallIdle

\* refresh_patrol_data, run by refresh while PATROLLING: it rebuilds the
\* viewpoint set and the route between the viewpoints.  Its viewpoint type
\* (ViewPoint) is not among the sources, so it is taken as the specification
\* describes it: it completes, and touches neither the knowledge of gems,
\* walls and floor nor the cached paths read by the gem bookkeeping.
refresh_patrol_data(c) == c

\* update_hidden_positions: the cells known as floor or as wall leave the
\* hidden set
HiddenSymmetricDifference(hp, kf, kw) ==
    (hp \ (DOMAIN kf \cup kw)) \cup ((DOMAIN kf \cup kw) \ hp)

update_hidden_positions(hp, kf, kw) == hp \ (DOMAIN kf \cup kw)

\* One turn of the loop of update_floor_graph: node f is reset to no
\* neighbours, then linked both ways with each 4-neighbour that is a node
AddFloorNode(g, f) ==
    LET nodes == DOMAIN g \cup {f}
        nbrs == {n \in get_adjacents(f) : n \in nodes}
    IN  [c \in nodes |->
            IF c = f THEN nbrs
            ELSE IF c \in nbrs THEN g[c] \cup {f} ELSE g[c]]

\* update_floor_graph over the known floor cells still to visit
RECURSIVE update_floor_graph(_, _)
update_floor_graph(g, todo) ==
    IF todo = {} THEN g
    ELSE LET f == CHOOSE c \in todo : TRUE
         IN  update_floor_graph(AddFloorNode(g, f), todo \ {f})

\* GameState.refresh.  The dead ends and the visibility map are not part of
\* this model's state.
RefreshedWalls ==
    IF behaviour_state = "EXPLORING" THEN known_walls \cup wall ELSE known_walls

\* g: the result of update_known_gems
RefreshTo(g) ==
    LET kw == RefreshedWalls
        hp == IF behaviour_state = "EXPLORING" /\ ~cave_revealed
              THEN update_hidden_positions(hidden_positions, known_floors, kw)
              ELSE hidden_positions
        fg == IF behaviour_state = "EXPLORING"
              THEN update_floor_graph(floor_graph, DOMAIN known_floors)
              ELSE floor_graph
        kf == [c \in DOMAIN known_floors \cup floor |->
                  IF c \in floor THEN tick ELSE known_floors[c]]
    IN  /\ known_walls' = kw
        /\ hidden_positions' = hp
        /\ known_floors' = kf
        /\ known_gems' = g.gems
        /\ cache' = g.cache
        /\ floor_graph' = fg
        /\ prev_gems' = known_gems
        /\ prev_hidden' = hidden_positions
        /\ cycles' = cycles + 1
        /\ UNCHANGED <<pathVars, width, height, tick, bot, wall, floor,
                       initiative, visible_gems, visible_bots, cave_revealed,
                       behaviour_state, last_path, selected, next_pos, raised,
                       scored_candidates, seen_walls, coverVars, callVars>>

RefreshBody ==
    RefreshTo(update_known_gems(known_gems, visible_gems,
                                IF behaviour_state = "PATROLLING"
                                THEN refresh_patrol_data(cache) ELSE cache,
                                bot, RefreshedWalls, width, height))

Refresh == pc = "ingested" /\ pc' = "refreshed" /\ RefreshBody

\* update_from_dict with the message of the current tick once more, then
\* refresh again
RefreshAgain == pc = "refreshed" /\ cycles = 1 /\ pc' = "refreshed" /\ RefreshBody

Frontier == update_hidden_floors(hidden_positions, known_floors, width, height)

\* The candidate lists the selected strategy's planner can return
Plans(name) ==
    IF name = "exploration" THEN cave_explore_planner(Frontier, last_path, bot)
    ELSE IF name = "patrol" THEN oldest_floor_patrol_planner(known_floors)
    ELSE greedy_planner(known_gems, bot)

DecideFrame ==
    LET d == decide_strategy(known_gems, cave_revealed)
    IN  /\ pc = "refreshed"
        /\ pc' = "decided"
        /\ behaviour_state' = d.state
        /\ selected' = d.name
        \* update_hidden_floors, called by cave_explore_planner only
        /\ cave_revealed' = IF d.name = "exploration" /\ Frontier = {} THEN TRUE
                            ELSE cave_revealed
        /\ UNCHANGED <<pathVars, width, height, tick, bot, wall, floor,
                       initiative, visible_gems, visible_bots, known_gems,
                       known_walls, known_floors, hidden_positions,
                       prev_gems, cycles, floor_graph, seen_walls,
                       prev_hidden, coverVars, callVars>>

\* The caller of decide keeps the committed path for the next tick; the
\* caller is not among the sources, the specification names the committed
\* path as an output of the tick.
CommitPath(p) == last_path' = p

\* The cell LocalStrategy.decide returns for the scored candidates sc[1];
\* sc[2] is the cache afterwards
Commit(sc) ==
    /\ next_pos' = NextStep(simple_tie_breaker(sc[1]), bot)
    /\ CommitPath(simple_tie_breaker(sc[1]).path)
    /\ cache' = sc[2]
    /\ scored_candidates' = sc[1]

\* GlobalCombinedStrategy.decide returning a cell
Decide ==
    /\ DecideFrame
    /\ LET name == decide_strategy(known_gems, cave_revealed).name
       IN  \E cands \in Plans(name) :
              /\ cands # <<>>
              /\ Commit(ScoreCandidates(name, cands, 1, cache, <<>>))
    /\ raised' = FALSE

\* GlobalCombinedStrategy.decide ending in an exception: min() of an empty
\* dict in simple_tie_breaker, or sorted_floors[0] of an empty list in
\* oldest_floor_patrol_planner.  No cell is returned.
DecideRaises ==
    /\ DecideFrame
    /\ LET plans == Plans(decide_strategy(known_gems, cave_revealed).name)
       IN  plans = {} \/ <<>> \in plans
    /\ raised' = TRUE
    /\ scored_candidates' = <<>>
    /\ UNCHANGED <<next_pos, last_path, cache>>

\* The next message arrives (update_from_dict).  The server has moved the
\* agent to the cell it asked for, or left it in place (blocked move, or no
\* move sent because the decision pass raised).  A run that ends with the
\* exception is a prefix of the runs described here.
UpdateFromDict ==
    /\ pc = "decided"
    /\ tick < MaxTick
    /\ pc' = "ingested"
    /\ tick' = tick + 1
    /\ bot' \in {bot} \cup (IF raised \/ next_pos \in TrueWalls
                               \/ ~InBounds(next_pos, width, height)
                           THEN {} ELSE {next_pos})
    /\ Observe(bot')
    /\ cycles' = 0
    /\ seen_walls' = seen_walls \cup wall'
    /\ UNCHANGED <<pathVars, width, height, known_gems, known_walls,
                   known_floors, hidden_positions, cave_revealed,
                   behaviour_state, last_path, cache, selected, next_pos,
                   raised, prev_gems, floor_graph,
                   scored_candidates, prev_hidden, coverVars, callVars>>

Next == Refresh \/ Decide \/ DecideRaises \/ UpdateFromDict

Spec == Init /\ [][Next]_vars

NextRepeat == Refresh \/ RefreshAgain \/ Decide \/ DecideRaises \/ UpdateFromDict

SpecRepeat == Init /\ [][NextRepeat]_vars

\* Direction.from_delta and Direction.to_str on the chosen cell
from_delta(d) ==
    IF d = <<-1, 0>> THEN "LEFT" ELSE IF d = <<1, 0>> THEN "RIGHT"
    ELSE IF d = <<0, -1>> THEN "UP" ELSE IF d = <<0, 1>> THEN "DOWN" ELSE "WAIT"

to_str(direction) ==
    IF direction = "UP" THEN "N" ELSE IF direction = "DOWN" THEN "S"
    ELSE IF direction = "LEFT" THEN "W" ELSE IF direction = "RIGHT" THEN "E"
    ELSE "WAIT"

Move == to_str(from_delta(<<next_pos[1] - bot[1], next_pos[2] - bot[2]>>))

(***************************************************************************)
(* Properties of the decision pass and of the update cycle.                *)
(***************************************************************************)
Decided == pc = "decided"

Refreshed == pc = "refreshed"

Moves == {"N", "S", "E", "W", "WAIT"}

VisiblePositions == Positions(visible_gems)

\* C4: every decision pass runs to completion without raising and yields
\* one move out of N, S, E, W, WAIT; a planner without candidates gives WAIT.
C4_DecisionAlwaysYieldsMove ==
    Decided => /\ ~raised
               /\ Move \in Moves
               /\ (selected = "exploration" /\ Frontier = {} => Move = "WAIT")

\* C5: after decide_strategy the behaviour state is COLLECTING_GEM and the
\* gem-collection strategy is selected exactly when some known gem is
\* reachable, whatever the previous state and whatever cave_revealed.
C5_CollectIffReachableGem ==
    Decided => /\ (behaviour_state = "COLLECTING_GEM" <=> AnyReachable(known_gems))
               /\ (selected = "gem_collection" <=> AnyReachable(known_gems))

\* A decision taken with the cave already revealed and a reachable gem known
C5_Witness ==
    /\ Decided /\ cave_revealed /\ AnyReachable(known_gems)
    /\ behaviour_state = "COLLECTING_GEM" /\ tick >= 1

\* C6: with no reachable gem, EXPLORING is selected only when a frontier
\* cell exists, and PATROLLING is selected whenever none exists.
C6_ExploreOnlyWithFrontier ==
    (Decided /\ ~AnyReachable(known_gems)) =>
        /\ (behaviour_state = "EXPLORING" => Frontier # {})
        /\ (Frontier = {} => behaviour_state = "PATROLLING")

C8_RepeatedCycleIdempotent ==
    [][(pc = "refreshed" /\ pc' = "refreshed")
         => /\ known_gems' = known_gems
            /\ known_walls' = known_walls
            /\ known_floors' = known_floors
            /\ hidden_positions' = hidden_positions
            /\ cave_revealed' = cave_revealed]_vars

\* C9: after the update cycle a known gem is flagged reachable exactly when
\* a path avoiding the known walls exists whose number of steps is at most
\* the gem's remaining lifetime.
C9_ReachableIffWithinLifetime ==
    Refreshed =>
        \A i \in 1 .. Len(known_gems) :
            LET g == known_gems[i]
                d == RefDist(bot, g.position, known_walls, width, height)
            IN  g.reachable <=> (d # -1 /\ d <= g.ttl)

KnownCells == known_walls \cup DOMAIN known_floors

\* C11: after every update cycle, in every behaviour state, the hidden set
\* holds no cell that is a key of known_walls or of known_floors.
C11_HiddenDisjointFromKnown == Refreshed => hidden_positions \cap KnownCells = {}

\* C12: after every update cycle, in every behaviour state, known_walls
\* holds every wall cell reported in this or an earlier observation, and no
\* step removes a wall from known_walls.
C12_KnownWallsKeepEveryObservedWall ==
    [][/\ known_walls \subseteq known_walls'
       /\ pc' = "refreshed" => seen_walls' \subseteq known_walls']_vars

\* C13: the hidden set never gains a cell: after every step, and so after
\* every update cycle, it is a subset of what it was before.
C13_HiddenNeverGains == [][hidden_positions' \subseteq hidden_positions]_vars

C13_Witness ==
    /\ Refreshed
    /\ tick >= 1
    /\ hidden_positions # prev_hidden
    /\ hidden_positions \subseteq prev_hidden

\* C14: cave_revealed is one-way: a tick that ends with an empty hidden set
\* ends with the flag true, and a true flag stays true.
C14_RevealedOneWay ==
    [][/\ cave_revealed => cave_revealed'
       /\ pc' = "decided" /\ hidden_positions' = {} => cave_revealed']_vars


\* The entry of scored_candidates the tie-breaker picked
Winner == simple_tie_breaker(scored_candidates)

Returning == Decided /\ ~raised

\* C17: the cell LocalStrategy.decide returns is the agent's cell or a
\* 4-adjacent cell that is the second cell of the winning path; it is the
\* agent's cell only when the winning target is the agent's cell or no
\* candidate has a path.
C17_StepIsFirstOfWinningPath ==
    Returning =>
        /\ \/ next_pos = bot
           \/ /\ Adjacent4(bot, next_pos)
              /\ Len(Winner.path) > 1
              /\ next_pos = Winner.path[2]
        /\ next_pos = bot =>
               \/ Winner.target = bot
               \/ \A i \in 1 .. Len(scored_candidates) :
                      scored_candidates[i].path = <<>>

\* C18: a candidate of infinite score is never the committed target: the
\* winner has a finite score whenever some candidate has one, and when every
\* score is infinite the agent waits.
C18_InfiniteScoreNeverCommitted ==
    Returning =>
        IF \E i \in 1 .. Len(scored_candidates) :
               scored_candidates[i].score < Infinity
        THEN /\ Winner.score < Infinity
             /\ \A i \in 1 .. Len(scored_candidates) :
                    Winner.score <= scored_candidates[i].score
        ELSE Move = "WAIT"


\* C20: after every update cycle the floor graph's nodes are the known
\* floor cells, two nodes are neighbours exactly when they are 4-adjacent
\* known floor cells, and the relation is symmetric without self-loops.
C20_FloorGraphIsFloorAdjacency ==
    Refreshed =>
        /\ DOMAIN floor_graph = DOMAIN known_floors
        /\ \A a \in DOMAIN floor_graph :
               /\ a \notin floor_graph[a]
               /\ floor_graph[a] =
                      {b \in DOMAIN known_floors : Adjacent4(a, b)}
               /\ \A b \in floor_graph[a] :
                      b \in DOMAIN floor_graph /\ a \in floor_graph[b]

-----------------------------------------------------------------------------
(***************************************************************************)
(* SpecGraph: find_articulation_points and find_dead_ends_and_rooms on an  *)
(* undirected graph without self-loops.  args.graph maps a node to its set *)
(* of neighbours; args.order is the order in which the dict and the        *)
(* neighbour sets are iterated.                                            *)
(***************************************************************************)
MaxNodes == 4

NodeOf(i) == <<i - 1, 0>>

\* Everything but the call variables is at rest
OnlyCalls ==
    /\ start = <<0, 0>> /\ goal = <<0, 0>> /\ forbidden = {} /\ path = <<>>
    /\ width = 2 /\ height = 2
    /\ WorldIdle
    /\ CoverIdle

Pairs(nodes) == {e \in SUBSET nodes : Cardinality(e) = 2}

GraphOf(nodes, edges) ==
    [n \in nodes |-> {m \in nodes : {n, m} \in edges}]

Orders(nodes) ==
    {o \in [1 .. Cardinality(nodes) -> nodes] :
        \A i, j \in 1 .. Cardinality(nodes) : i # j => o[i] # o[j]}

Graphs ==
    UNION {{GraphOf({NodeOf(i) : i \in 1 .. n}, E) :
               E \in SUBSET Pairs({NodeOf(i) : i \in 1 .. n})} :
           n \in 1 .. MaxNodes}

\* The members of S in iteration order
Iterate(S, order) == SelectSeq(order, LAMBDA x : x \in S)

Min2(a, b) == IF a < b THEN a ELSE b

NoParent == <<-1, -1>>

\* The root rule of find_articulation_points
RootRuleAnyChild(parent, children) == parent = NoParent /\ children > 0

RootRule(parent, children) == parent = NoParent /\ children > 1

\* st: [visited, discovery, low, articulation_points, timer]
RECURSIVE ap_dfs(_, _, _, _, _)
RECURSIVE ApNeighbours(_, _, _, _, _, _, _, _)
\* After the recursive call on neighbour nb returned st2
ApAfterChild(g, order, node, parent, nbrs, i, children, st2) ==
    LET nb == nbrs[i]
        lo == Min2(st2.low[node], st2.low[nb])
    IN  ApNeighbours(g, order, node, parent, nbrs, i + 1, children + 1,
            [st2 EXCEPT
                !.low[node] = lo,
                !.articulation_points =
                    IF parent # NoParent /\ st2.low[nb] >= st2.discovery[node]
                    THEN @ \cup {node} ELSE @])

ApNeighbours(g, order, node, parent, nbrs, i, children, st) ==
    IF i > Len(nbrs)
    THEN IF RootRule(parent, children)
         THEN [st EXCEPT !.articulation_points = @ \cup {node}]
         ELSE st
    ELSE IF nbrs[i] = parent
    THEN ApNeighbours(g, order, node, parent, nbrs, i + 1, children, st)
    ELSE IF nbrs[i] \notin st.visited
    THEN ApAfterChild(g, order, node, parent, nbrs, i, children,
                      ap_dfs(g, order, nbrs[i], node, st))
    ELSE ApNeighbours(g, order, node, parent, nbrs, i + 1, children,
             [st EXCEPT !.low[node] = Min2(@, st.discovery[nbrs[i]])])

ap_dfs(g, order, node, parent, st) ==
    ApNeighbours(g, order, node, parent, Iterate(g[node], order), 1, 0,
        [st EXCEPT !.visited = @ \cup {node},
                   !.discovery[node] = st.timer,
                   !.low[node] = st.timer,
                   !.timer = @ + 1])

\* for node in graph: if node not in visited: dfs(node, None, timer)
RECURSIVE ApRoots(_, _, _, _)
ApRoots(g, order, i, st) ==
    IF i > Len(order) THEN st
    ELSE IF order[i] \in st.visited THEN ApRoots(g, order, i + 1, st)
    ELSE ApRoots(g, order, i + 1, ap_dfs(g, order, order[i], NoParent, st))

find_articulation_points(g, order) ==
    ApRoots(g, order, 1,
            [visited |-> {},
             discovery |-> [n \in DOMAIN g |-> -1],
             low |-> [n \in DOMAIN g |-> -1],
             articulation_points |-> {},
             timer |-> 0]).articulation_points

\* The last test of find_dead_ends_and_rooms: len(graph[node]) == 1
AtMostOneNeighbour(g, node) == Cardinality(g[node]) <= 1

ExactlyOneNeighbour(g, node) == Cardinality(g[node]) = 1

\* The inner dfs of find_dead_ends_and_rooms
\* d: [visited, component, entry_points]; stack: a sequence, popped at its end
RECURSIVE DeadEndStack(_, _, _, _)
RECURSIVE DeadEndNeighbours(_, _, _, _, _, _)
DeadEndNeighbours(g, order, stack, nbrs, i, d) ==
    IF i > Len(nbrs) THEN DeadEndStack(g, order, stack, d)
    ELSE IF nbrs[i] \notin d.visited
    THEN DeadEndNeighbours(g, order, Append(stack, nbrs[i]), nbrs, i + 1, d)
    ELSE IF nbrs[i] \notin d.component
    THEN DeadEndNeighbours(g, order, stack, nbrs, i + 1,
             [d EXCEPT !.entry_points = @ \cup {nbrs[i]}])
    ELSE DeadEndNeighbours(g, order, stack, nbrs, i + 1, d)

DeadEndStack(g, order, stack, d) ==
    IF stack = <<>> THEN d
    ELSE IF stack[Len(stack)] \in d.visited
    THEN DeadEndStack(g, order, SubSeq(stack, 1, Len(stack) - 1), d)
    ELSE DeadEndNeighbours(g, order, SubSeq(stack, 1, Len(stack) - 1),
             Iterate(g[stack[Len(stack)]], order), 1,
             [d EXCEPT !.visited = @ \cup {stack[Len(stack)]},
                       !.component = @ \cup {stack[Len(stack)]}])

\* The outer loop; d is the result of the inner dfs from order[i]
RECURSIVE DeadEndRoots(_, _, _, _, _)
DeadEndComponent(g, order, i, dead_ends, d) ==
    DeadEndRoots(g, order, i + 1, d.visited,
        IF Cardinality(d.entry_points) <= 1
        THEN dead_ends \cup {n \in d.component : ExactlyOneNeighbour(g, n)}
        ELSE dead_ends)

DeadEndRoots(g, order, i, visited, dead_ends) ==
    IF i > Len(order) THEN dead_ends
    ELSE IF order[i] \in visited
    THEN DeadEndRoots(g, order, i + 1, visited, dead_ends)
    ELSE DeadEndComponent(g, order, i, dead_ends,
             DeadEndStack(g, order, <<order[i]>>,
                 [visited |-> visited, component |-> {}, entry_points |-> {}]))

find_dead_ends_and_rooms(g, order) == DeadEndRoots(g, order, 1, {}, {})

InitGraph ==
    /\ OnlyCalls
    /\ pc = "graph"
    /\ \E g \in Graphs :
          \E o \in Orders(DOMAIN g) : args = [graph |-> g, order |-> o]
    /\ result = <<>>

FindArticulationPoints ==
    /\ pc = "graph"
    /\ pc' = "articulation"
    /\ result' = [articulation_points |->
                      find_articulation_points(args.graph, args.order)]
    /\ UNCHANGED <<pathVars, width, height, worldVars, coverVars, args>>

FindDeadEnds ==
    /\ pc = "articulation"
    /\ pc' = "dead_ends"
    /\ result' = [dead_ends |-> find_dead_ends_and_rooms(args.graph, args.order)]
    /\ UNCHANGED <<pathVars, width, height, worldVars, coverVars, args>>

NextGraph == FindArticulationPoints \/ FindDeadEnds

SpecGraph == InitGraph /\ [][NextGraph]_vars

\* The nodes of S joined to a by edges of g that stay inside S
RECURSIVE Component(_, _, _)
Component(g, S, reached) ==
    LET more == {m \in S : \E n \in reached : m \in g[n]} \ reached
    IN  IF more = {} THEN reached ELSE Component(g, S, reached \cup more)

NumComponents(g, S) == Cardinality({Component(g, S, {a}) : a \in S})

CutNodes(g) ==
    {n \in DOMAIN g :
        NumComponents(g, DOMAIN g \ {n}) > NumComponents(g, DOMAIN g)}

\* C21: find_articulation_points returns exactly the nodes whose removal
\* increases the number of connected components, for connected and
\* disconnected graphs and whichever node the search starts from.
C21_ArticulationPointsAreCutNodes ==
    pc = "articulation" => result.articulation_points = CutNodes(args.graph)

\* C21 witness: the path 0-1-2 searched from its middle node, which is then
\* a root with two tree children; the result is {1}
C21_Witness ==
    /\ pc = "articulation"
    /\ DOMAIN args.graph = {NodeOf(1), NodeOf(2), NodeOf(3)}
    /\ args.graph[NodeOf(2)] = {NodeOf(1), NodeOf(3)}
    /\ args.graph[NodeOf(1)] = {NodeOf(2)}
    /\ args.graph[NodeOf(3)] = {NodeOf(2)}
    /\ args.order[1] = NodeOf(2)
    /\ result.articulation_points = {NodeOf(2)}

-----------------------------------------------------------------------------
(***************************************************************************)
(* SpecFov: one call of compute_fov.  args.walls is the set of cells whose *)
(* grid entry is True; the grid is FovW wide and FovH high.                *)
(***************************************************************************)
MaxRadius == 2

FovW == 3

FovH == 3

Sign(a, b) == IF a < b THEN 1 ELSE -1

\* bresenham_line; err2 is twice the source's err, which starts at dx / 2.0
RECURSIVE LineX(_, _, _, _, _, _, _, _)
LineX(x, y, err2, dx, dy, sx, sy, end) ==
    IF x = end[1] THEN <<<<x, y>>>>
    ELSE <<<<x, y>>>> \o
         (IF err2 - 2 * dy < 0
          THEN LineX(x + sx, y + sy, err2 - 2 * dy + 2 * dx, dx, dy, sx, sy, end)
          ELSE LineX(x + sx, y, err2 - 2 * dy, dx, dy, sx, sy, end))

RECURSIVE LineY(_, _, _, _, _, _, _, _)
LineY(x, y, err2, dx, dy, sx, sy, end) ==
    IF y = end[2] THEN <<<<x, y>>>>
    ELSE <<<<x, y>>>> \o
         (IF err2 - 2 * dx < 0
          THEN LineY(x + sx, y + sy, err2 - 2 * dx + 2 * dy, dx, dy, sx, sy, end)
          ELSE LineY(x, y + sy, err2 - 2 * dx, dx, dy, sx, sy, end))

bresenham_line(s, e) ==
    IF Abs(e[1] - s[1]) > Abs(e[2] - s[2])
    THEN LineX(s[1], s[2], Abs(e[1] - s[1]), Abs(e[1] - s[1]), Abs(e[2] - s[2]),
               Sign(s[1], e[1]), Sign(s[2], e[2]), e)
    ELSE LineY(s[1], s[2], Abs(e[2] - s[2]), Abs(e[1] - s[1]), Abs(e[2] - s[2]),
               Sign(s[1], e[1]), Sign(s[2], e[2]), e)

is_blocking(walls, w, h, c) == ~InBounds(c, w, h) \/ c \in walls

WithinRadius(p, t, radius) ==
    (t[1] - p[1]) * (t[1] - p[1]) + (t[2] - p[2]) * (t[2] - p[2])
        <= radius * radius

\* The steps of the line that the loop of compute_fov tests
Tested(line) == {line[i] : i \in 1 .. Len(line)}

compute_fov(walls, w, h, position, radius) ==
    {t \in Grid(w, h) :
        /\ Abs(t[1] - position[1]) <= radius
        /\ Abs(t[2] - position[2]) <= radius
        /\ WithinRadius(position, t, radius)
        /\ \A c \in Tested(bresenham_line(position, t)) :
               ~is_blocking(walls, w, h, c)}

InitFov ==
    /\ OnlyCalls
    /\ pc = "fov"
    /\ \E ws \in SUBSET Grid(FovW, FovH), p \in Grid(FovW, FovH),
          r \in 0 .. MaxRadius :
          args = [walls |-> ws, position |-> p, radius |-> r]
    /\ result = <<>>

ComputeFov ==
    /\ pc = "fov"
    /\ pc' = "seen"
    /\ result' = [visible |-> compute_fov(args.walls, FovW, FovH,
                                          args.position, args.radius)]
    /\ UNCHANGED <<pathVars, width, height, worldVars, coverVars, args>>

NextFov == ComputeFov

SpecFov == InitFov /\ [][NextFov]_vars

\* The cells of the line strictly between its two ends
Intermediate(line) == {line[i] : i \in 2 .. Len(line) - 1}

\* C23: compute_fov returns exactly the in-grid cells within the radius
\* (squared distance) for which no intermediate cell of the line from the
\* origin is a wall or out of bounds.
C23_FovIsClearLineWithinRadius ==
    pc = "seen" =>
        result.visible =
            {t \in Grid(FovW, FovH) :
                /\ WithinRadius(args.position, t, args.radius)
                /\ \A c \in Intermediate(bresenham_line(args.position, t)) :
                       ~is_blocking(args.walls, FovW, FovH, c)}

-----------------------------------------------------------------------------
(***************************************************************************)
(* Claims about the blocking evaluator, read off scored_candidates in the  *)
(* decided states of Spec.                                                 *)
(***************************************************************************)
Collecting == Returning /\ selected = "gem_collection"

\* A rival next to the agent, orthogonally or diagonally
CloseRivals == {i \in 1 .. Len(visible_bots) : IsClose(visible_bots[i])}

\* Uncached searches over the known walls
DirectPath(target) == find_path(bot, target, known_walls, width, height)

RivalPath(i, target) ==
    find_path(visible_bots[i], target, known_walls, width, height)

\* The rival's next step is a cell next to the agent and closer to the target
Blockable(i, target) ==
    /\ Len(RivalPath(i, target)) > 1
    /\ RivalPath(i, target)[2] \in get_adjacents(bot)
    /\ manhattan(RivalPath(i, target)[2], target) < manhattan(bot, target)

\* C24: with a rival next to the agent and the initiative, an evaluation
\* whose rival's next step is next to the agent and closer to the target
\* returns a path whose next step is that cell and a score below the length
\* of the direct path; any other evaluation returns the direct shortest path
\* and its length.
C24_BlockOrDirect ==
    (Collecting /\ initiative) =>
        \A k \in 1 .. Len(scored_candidates) : \A i \in CloseRivals :
            IF Blockable(i, scored_candidates[k].target)
            THEN /\ Len(scored_candidates[k].path) > 1
                 /\ scored_candidates[k].path[2] =
                        RivalPath(i, scored_candidates[k].target)[2]
                 /\ scored_candidates[k].score <
                        Len(DirectPath(scored_candidates[k].target))
            ELSE /\ Len(scored_candidates[k].path) =
                        Len(DirectPath(scored_candidates[k].target))
                 /\ scored_candidates[k].score =
                        Len(DirectPath(scored_candidates[k].target))

\* C25: with a rival next to the agent and without the initiative, the
\* returned path holds, after its first cell, no cell 4-adjacent to that
\* rival.
C25_AvoidsCellsNextToRival ==
    (Collecting /\ ~initiative) =>
        \A k \in 1 .. Len(scored_candidates) : \A i \in CloseRivals :
            \A j \in 2 .. Len(scored_candidates[k].path) :
                scored_candidates[k].path[j] \notin get_adjacents(visible_bots[i])

(***************************************************************************)
(* GlobalCombinedStrategy.decide with a stuck counter above 0.  The        *)
(* counter, the committed path and the very-stuck flag are fields the      *)
(* caller keeps on the game state; one call is made with each combination. *)
(***************************************************************************)
MaxStuck == 31

StuckFollowFrom == 3

StuckFollowBelow == 30

VeryStuckFrom == 10

StuckLine == {<<0, 0>>, <<1, 0>>, <<2, 0>>}

StuckPaths ==
    {<<<<0, 0>>, <<1, 0>>>>, <<<<0, 0>>, <<1, 0>>, <<2, 0>>>>,
     <<<<2, 0>>, <<1, 0>>>>}

\* The branch of decide taken for a stuck counter:
\* "follow" returns from the previous path, the others go on to
\* strategy.decide with bot_very_stuck set or cleared
StuckBranch(stuck_counter) ==
    IF StuckFollowBelow > stuck_counter /\ stuck_counter >= StuckFollowFrom
    THEN "follow"
    ELSE IF stuck_counter >= VeryStuckFrom THEN "very_stuck"
    ELSE "not_stuck"

\* next_path[next_path.index(game_state.bot) + 1]; raises when the agent is
\* not on the path or on its last cell
FollowLastPath(b, lp, very) ==
    LET i == IndexOf(b, lp)
    IN  IF i = 0 \/ i = Len(lp)
        THEN [raised |-> TRUE, replanned |-> FALSE, path |-> <<>>,
              next_pos |-> b, bot_very_stuck |-> very]
        ELSE [raised |-> FALSE, replanned |-> FALSE, path |-> lp,
              next_pos |-> lp[i + 1], bot_very_stuck |-> very]

\* What decide does with the stuck counter; replanned: the call went on to
\* strategy.decide of the selected strategy
stuck_decide(stuck_counter, b, lp, very) ==
    LET br == StuckBranch(stuck_counter)
    IN  IF br = "follow" THEN FollowLastPath(b, lp, very)
        ELSE [raised |-> FALSE, replanned |-> TRUE, path |-> <<>>,
              next_pos |-> b, bot_very_stuck |-> (br = "very_stuck")]

InitStuck ==
    /\ OnlyCalls
    /\ pc = "stuck"
    /\ \E s \in 0 .. MaxStuck, b \in StuckLine, lp \in StuckPaths,
          very \in BOOLEAN :
          args = [stuck_counter |-> s, bot |-> b, last_path |-> lp,
                  bot_very_stuck |-> very]
    /\ result = <<>>

DecideStuck ==
    /\ pc = "stuck"
    /\ pc' = "stuck_decided"
    /\ result' = stuck_decide(args.stuck_counter, args.bot, args.last_path,
                              args.bot_very_stuck)
    /\ UNCHANGED <<pathVars, width, height, worldVars, coverVars, args>>

NextStuck == DecideStuck

SpecStuck == InitStuck /\ [][NextStuck]_vars

\* C26: a decision that returns with the stuck counter from 3 up to 9
\* returns the previously committed path and does not re-plan; with every
\* stuck counter of 10 or more the decision marks the agent very stuck and
\* re-plans through the selected strategy.
C26_FollowBelowTenReplanFromTen ==
    pc = "stuck_decided" =>
        /\ (args.stuck_counter >= StuckFollowFrom
              /\ args.stuck_counter < VeryStuckFrom /\ ~result.raised)
             => (result.path = args.last_path /\ ~result.replanned)
        /\ args.stuck_counter >= VeryStuckFrom
             => (result.replanned /\ result.bot_very_stuck)

(***************************************************************************)
(* cluster_targets: one pass over the targets in the order given; a target *)
(* joins the first cluster holding a cell within max_distance, else opens  *)
(* a new cluster.  The function returns one centroid per cluster.          *)
(***************************************************************************)
MaxTargets == 3

MaxDistance == 2

ClusterW == 3

ClusterH == 2

\* The index of the first cluster with a cell within d of target, 0 if none
FirstNear(clusters, target, d) ==
    IF \E k \in 1 .. Len(clusters) :
           \E c \in clusters[k] : manhattan(target, c) <= d
    THEN CHOOSE k \in 1 .. Len(clusters) :
             /\ \E c \in clusters[k] : manhattan(target, c) <= d
             /\ \A j \in 1 .. k - 1 :
                    \A c \in clusters[j] : manhattan(target, c) > d
    ELSE 0

\* The for loop over targets from position i on
RECURSIVE ClusterLoop(_, _, _, _)
ClusterLoop(targets, d, i, clusters) ==
    IF i > Len(targets) THEN clusters
    ELSE LET k == FirstNear(clusters, targets[i], d)
         IN  ClusterLoop(targets, d, i + 1,
                 IF k = 0 THEN Append(clusters, {targets[i]})
                 ELSE [clusters EXCEPT ![k] = @ \cup {targets[i]}])

RECURSIVE SumX(_)
SumX(cells) ==
    IF cells = {} THEN 0
    ELSE LET c == CHOOSE c \in cells : TRUE IN c[1] + SumX(cells \ {c})

RECURSIVE SumY(_)
SumY(cells) ==
    IF cells = {} THEN 0
    ELSE LET c == CHOOSE c \in cells : TRUE IN c[2] + SumY(cells \ {c})

Centroid(cluster) ==
    <<SumX(cluster) \div Cardinality(cluster),
      SumY(cluster) \div Cardinality(cluster)>>

\* clusters: the local list of sets; centroids: the list returned
cluster_targets(targets, max_distance) ==
    LET clusters == ClusterLoop(targets, max_distance, 1, <<>>)
    IN  [clusters |-> clusters,
         centroids |-> [k \in 1 .. Len(clusters) |-> Centroid(clusters[k])]]

TargetLists ==
    UNION {[1 .. n -> Grid(ClusterW, ClusterH)] : n \in 0 .. MaxTargets}

InitCluster ==
    /\ OnlyCalls
    /\ pc = "cluster"
    /\ \E ts \in TargetLists, d \in 0 .. MaxDistance :
          args = [targets |-> ts, max_distance |-> d]
    /\ result = <<>>

ClusterTargets ==
    /\ pc = "cluster"
    /\ pc' = "clustered"
    /\ result' = cluster_targets(args.targets, args.max_distance)
    /\ UNCHANGED <<pathVars, width, height, worldVars, coverVars, args>>

NextCluster == ClusterTargets

SpecCluster == InitCluster /\ [][NextCluster]_vars

\* C27: whatever the order of the targets, any two targets within
\* max_distance (Manhattan) of each other lie in one cluster, and every
\* target lies in exactly one cluster.
C27_NearTargetsShareACluster ==
    pc = "clustered" =>
        LET ts == args.targets
            cl == result.clusters
        IN  /\ \A i, j \in 1 .. Len(ts) :
                   manhattan(ts[i], ts[j]) <= args.max_distance
                       => \E k \in 1 .. Len(cl) : {ts[i], ts[j]} \subseteq cl[k]
            /\ \A i \in 1 .. Len(ts) :
                   Cardinality({k \in 1 .. Len(cl) : ts[i] \in cl[k]}) = 1

(***************************************************************************)
(* The path cache across decision passes                                   *)
(***************************************************************************)
\* C28: evaluation only reads the path cache: whatever evaluator calls are
\* made over the ticks, every key keeps the cell sequence its first lookup
\* stored, and no cached sequence holds the same cell twice in a row.
C28_CacheEntriesNeverChange ==
    [][/\ Len(cache') >= Len(cache)
       /\ \A i \in 1 .. Len(cache) : cache'[i] = cache[i]
       /\ \A i \in 1 .. Len(cache') :
              \A j \in 1 .. Len(cache'[i].val) - 1 :
                  cache'[i].val[j] # cache'[i].val[j + 1]]_vars

\* C29: whenever a decision pass returns with the behaviour state
\* COLLECTING_GEM, the target of the winning candidate is the position of a
\* known gem whose reachable flag is true.
C29_CollectedTargetIsReachableGem ==
    (Returning /\ behaviour_state = "COLLECTING_GEM") =>
        \E i \in 1 .. Len(known_gems) :
            /\ known_gems[i].position = Winner.target
            /\ known_gems[i].reachable

(***************************************************************************)
(* A game played with GlobalCombinedStrategy over the exploration strategy *)
(* and the simple patrol route strategy, in a cave without gems and        *)
(* rivals.  The game state fields of the patrol are kept in args:          *)
(*   visibility_map  function cell -> set of floor cells seen from it      *)
(*   patrol_points   the set, as the sequence list(patrol_points) yields   *)
(*   patrol_index                                                          *)
(*   order           the order in which a set of cells is iterated: the    *)
(*                   cells' hash order, one order of the floor cells that  *)
(*                   stays the same during a game                          *)
(* and result holds what the last call of the planner did.                 *)
(***************************************************************************)
PatrolW == 4

PatrolH == 2

PatrolRadius == 1

MaxPatrolTick == 12

PatrolWalls == {<<3, 1>>}

PatrolStarts == {<<0, 0>>}

PatrolSeen(b) ==
    {c \in Grid(PatrolW, PatrolH) : manhattan(b, c) <= PatrolRadius}

\* The elements of S in some order, and in every order
RECURSIVE SeqOf(_)
SeqOf(S) ==
    IF S = {} THEN <<>>
    ELSE LET x == CHOOSE x \in S : TRUE IN <<x>> \o SeqOf(S \ {x})

RECURSIVE Perms(_)
Perms(S) ==
    IF S = {} THEN {<<>>}
    ELSE UNION {{<<x>> \o p : p \in Perms(S \ {x})} : x \in S}

\* update_dead_ends_and_rooms: dead_ends is recomputed from the floor graph
\* at both ends of refresh
dead_ends == find_dead_ends_and_rooms(floor_graph, SeqOf(DOMAIN floor_graph))

\* A viewpoint is taken to be its set of visible tiles: the tiles of the
\* viewpoint stored for vp in the visibility map
visible_tiles(vm, vp) == vm[vp]

\* max() over a set returns, among the elements of greatest key, the one
\* the iteration meets first
FirstOf(S, order) == Iterate(S, order)[1]

\* The viewpoint max() returns for one dead end (key: number of visible
\* tiles, then distance from the dead end); vis is not empty
BestViewpoint(vm, de, vis, order) ==
    LET Better(a, b) ==
            \/ Cardinality(visible_tiles(vm, a)) > Cardinality(visible_tiles(vm, b))
            \/ /\ Cardinality(visible_tiles(vm, a)) = Cardinality(visible_tiles(vm, b))
               /\ manhattan(de, a) > manhattan(de, b)
    IN  FirstOf({vp \in vis : \A o \in vis : ~Better(o, vp)}, order)

\* find_viewpoints
find_viewpoints(vm, des, order) ==
    {BestViewpoint(vm, de, {vp \in DOMAIN vm : de \in visible_tiles(vm, vp)},
                   order) :
        de \in {d \in des : \E vp \in DOMAIN vm : d \in visible_tiles(vm, vp)}}

\* The while loop of update_patrol_points; max() of an empty set raises
RECURSIVE CoverRest(_, _, _, _)
CoverRest(vm, best, uncovered, order) ==
    IF uncovered = {} THEN [raised |-> FALSE, points |-> best]
    ELSE IF DOMAIN vm \ best = {} THEN [raised |-> TRUE, points |-> best]
    ELSE LET v == FirstOf({w \in DOMAIN vm \ best :
                             \A o \in DOMAIN vm \ best :
                                 Cardinality(visible_tiles(vm, o) \cap uncovered)
                                   <= Cardinality(visible_tiles(vm, w) \cap uncovered)},
                          order)
         IN  CoverRest(vm, best \cup {v}, uncovered \ visible_tiles(vm, v),
                       order)

\* best_viewpoints and the floors they leave uncovered
CoverFrom(vm, best, floors, order) ==
    CoverRest(vm, best, floors \ UNION {visible_tiles(vm, v) : v \in best},
              order)

\* update_patrol_points: the two assertions come first
update_patrol_points(vm, des, floors, order) ==
    IF des = {} \/ DOMAIN vm = {} THEN [raised |-> TRUE, points |-> {}]
    ELSE CoverFrom(vm, find_viewpoints(vm, des, order), floors, order)

\* precompute_patrol_paths: a lookup for every ordered pair of patrol points
RECURSIVE precompute_patrol_paths(_, _, _, _)
precompute_patrol_paths(c, points, i, j) ==
    IF i > Len(points) THEN c
    ELSE IF j > Len(points) THEN precompute_patrol_paths(c, points, i + 1, 1)
    ELSE precompute_patrol_paths(
             IF i # j
             THEN cached_find_path(c, points[i], points[j], known_walls,
                                   width, height)
             ELSE c,
             points, i, j + 1)

\* simple_patrol_route_planner on list(patrol_points) = points
simple_patrol_route_planner(points, index, b) ==
    IF points = <<>>
    THEN [read |-> FALSE, raised |-> FALSE, n_points |-> 0,
          index_read |-> index, on_target |-> FALSE, index |-> index,
          candidates |-> <<>>]
    ELSE IF index >= Len(points)
    THEN [read |-> TRUE, raised |-> TRUE, n_points |-> Len(points),
          index_read |-> index, on_target |-> FALSE, index |-> index,
          candidates |-> <<>>]
    ELSE IF b = points[index + 1]
    THEN [read |-> TRUE, raised |-> FALSE, n_points |-> Len(points),
          index_read |-> index, on_target |-> TRUE,
          index |-> (index + 1) % Len(points),
          candidates |-> <<points[((index + 1) % Len(points)) + 1]>>]
    ELSE [read |-> TRUE, raised |-> FALSE, n_points |-> Len(points),
          index_read |-> index, on_target |-> FALSE, index |-> index,
          candidates |-> <<points[index + 1]>>]

InitPatrol ==
    /\ PathIdle
    /\ width = PatrolW /\ height = PatrolH
    /\ pc = "ingested"
    /\ tick = 0
    /\ bot \in PatrolStarts
    /\ wall = PatrolSeen(bot) \cap PatrolWalls
    /\ floor = PatrolSeen(bot) \ PatrolWalls
    /\ visible_gems = <<>> /\ visible_bots = <<>> /\ initiative = FALSE
    /\ known_gems = <<>>
    /\ known_walls = wall
    /\ known_floors = [c \in floor |-> 0]
    /\ hidden_positions = Grid(width, height) \ (wall \cup floor)
    /\ cave_revealed = FALSE
    /\ behaviour_state = "IDLE"
    /\ last_path = <<>>
    /\ cache = <<>>
    /\ selected = "none" /\ next_pos = bot /\ raised = FALSE
    /\ prev_gems = <<>> /\ cycles = 0
    /\ floor_graph = <<>> /\ scored_candidates = <<>>
    /\ seen_walls = wall /\ prev_hidden = hidden_positions
    /\ CoverIdle
    /\ \E order \in Perms(Grid(PatrolW, PatrolH) \ PatrolWalls) :
          args = [visibility_map |-> <<>>, patrol_points |-> <<>>,
                  patrol_index |-> 0, order |-> order]
    /\ result = <<>>

\* What no step of this game changes
PatrolFrame ==
    UNCHANGED <<pathVars, width, height, initiative, visible_gems,
                visible_bots, known_gems, prev_gems, cycles, seen_walls,
                prev_hidden, coverVars>>

\* The part of refresh after refresh_patrol_data; pts, c: the patrol points
\* and the cache at that point
RefreshPatrolRest(pts, c) ==
    /\ known_walls' = RefreshedWalls
    /\ hidden_positions' =
           IF behaviour_state = "EXPLORING" /\ ~cave_revealed
           THEN update_hidden_positions(hidden_positions, known_floors,
                                        RefreshedWalls)
           ELSE hidden_positions
    /\ floor_graph' =
           IF behaviour_state = "EXPLORING"
           THEN update_floor_graph(floor_graph, DOMAIN known_floors)
           ELSE floor_graph
    /\ known_floors' = [x \in DOMAIN known_floors \cup floor |->
                           IF x \in floor THEN tick ELSE known_floors[x]]
    /\ cache' = c
    /\ args' = [args EXCEPT
                   !.patrol_points = pts,
                   !.visibility_map =
                       [x \in DOMAIN args.visibility_map \cup {bot} |->
                           IF x = bot THEN floor ELSE args.visibility_map[x]]]

\* refresh_patrol_data with the outcome out of update_patrol_points, and
\* the rest of refresh
PatrolData(out) ==
    IF out.raised
    THEN UNCHANGED <<known_walls, hidden_positions, floor_graph,
                     known_floors, cache, args>>
    ELSE RefreshPatrolRest(Iterate(out.points, args.order),
             precompute_patrol_paths(cache, Iterate(out.points, args.order),
                                     1, 1))

\* GameState.refresh.  While PATROLLING it starts with refresh_patrol_data;
\* when that raises, the rest of refresh is not run.
PatrolRefresh ==
    /\ pc = "ingested"
    /\ pc' = "refreshed"
    /\ IF behaviour_state # "PATROLLING"
       THEN RefreshPatrolRest(args.patrol_points, cache)
       ELSE PatrolData(update_patrol_points(args.visibility_map, dead_ends,
                                            DOMAIN known_floors, args.order))
    /\ UNCHANGED <<tick, bot, wall, floor, cave_revealed, behaviour_state,
                   last_path, selected, next_pos, raised, scored_candidates,
                   result>>
    /\ PatrolFrame

\* decide while the cave is not revealed: the exploration strategy
PatrolDecideExplore ==
    /\ decide_strategy(known_gems, cave_revealed).name = "exploration"
    /\ Decide

PatrolExploreRaises ==
    /\ decide_strategy(known_gems, cave_revealed).name = "exploration"
    /\ DecideRaises

\* decide once the cave is revealed: the simple patrol route strategy.  The
\* planner returning no candidate, or raising, ends the pass by an exception.
PatrolDecidePatrol ==
    /\ pc = "refreshed"
    /\ pc' = "decided"
    /\ decide_strategy(known_gems, cave_revealed).name = "patrol"
    /\ behaviour_state' = "PATROLLING"
    /\ selected' = "patrol"
    /\ result' = simple_patrol_route_planner(args.patrol_points,
                                             args.patrol_index, bot)
    /\ args' = [args EXCEPT !.patrol_index = result'.index]
    /\ IF result'.candidates = <<>>
       THEN /\ raised' = TRUE
            /\ scored_candidates' = <<>>
            /\ UNCHANGED <<next_pos, last_path, cache>>
       ELSE /\ raised' = FALSE
            /\ Commit(ScoreCandidates("patrol", result'.candidates, 1,
                                      cache, <<>>))
    /\ UNCHANGED <<tick, bot, wall, floor, known_walls, known_floors,
                   hidden_positions, cave_revealed, floor_graph>>
    /\ PatrolFrame

\* The next message: with no rival in the cave the agent has moved to the
\* cell it asked for; it was left in place when the pass raised or asked
\* for a cell that is no floor
PatrolUpdateFromDict ==
    /\ pc = "decided"
    /\ tick < MaxPatrolTick
    /\ pc' = "ingested"
    /\ tick' = tick + 1
    /\ bot' = IF raised \/ next_pos \in PatrolWalls
                 \/ ~InBounds(next_pos, width, height)
              THEN bot ELSE next_pos
    /\ wall' = PatrolSeen(bot') \cap PatrolWalls
    /\ floor' = PatrolSeen(bot') \ PatrolWalls
    /\ UNCHANGED <<known_walls, known_floors, hidden_positions,
                   cave_revealed, behaviour_state, last_path, cache,
                   selected, next_pos, raised, floor_graph,
                   scored_candidates, callVars>>
    /\ PatrolFrame

NextPatrol ==
    \/ PatrolRefresh
    \/ PatrolDecideExplore
    \/ PatrolExploreRaises
    \/ PatrolDecidePatrol
    \/ PatrolUpdateFromDict

SpecPatrol == InitPatrol /\ [][NextPatrol]_vars

====
